---- MODULE Spec2Model ----
(***************************************************************************)
(* Training / evaluation semantics of the Dropout and BatchNorm layers of  *)
(* the tutorial notebooks (Tutorial #6: Dropout and BatchNorm), and of     *)
(* the nnx.Rngs streams they draw from.                                    *)
(*                                                                         *)
(* Numbers:                                                                *)
(*   - drop probabilities are held in tenths (rate = 5 is p = 0.5);        *)
(*   - activations are rationals <<numerator, denominator>> in lowest      *)
(*     terms;                                                              *)
(*   - a uniform draw in [0,1) is held as the tenth it falls in.           *)
(***************************************************************************)
EXTENDS Integers, Sequences, FiniteSets, TLC

VARIABLES
    \* ---- nnx.Dropout instances -------------------------------------
    rate,            \* [Layers -> tenths]  Dropout.rate
    deterministic,   \* [Layers -> BOOLEAN] Dropout.deterministic
    key,             \* [Layers -> seed]    RngStream.key of the layer's rngs
    count,           \* [Layers -> Nat]     RngStream.count of the layer's rngs
    uni,             \* the uniform draws jax.random has produced, per (key, count)
    call,            \* the last Dropout forward call: its input and its output
    log,             \* [Layers -> Seq]     the training-mode calls of each layer
    \* ---- nnx.BatchNorm instance (one feature) -----------------------
    mean,                  \* BatchNorm.mean  (BatchStat), a rational
    var_root,              \* BatchNorm.var   (BatchStat), held by its square root
    scale,                 \* BatchNorm.scale (Param), gamma
    bias,                  \* BatchNorm.bias  (Param), beta
    use_running_average,   \* BatchNorm.use_running_average
    ntrain,                \* number of training-mode BatchNorm calls so far
    bncall,                \* the last BatchNorm forward call
    bnprev,                \* the BatchNorm forward call before it
    \* ---- what the caller has seen -----------------------------------
    switch,                \* the last mode switch asked for: "none", "train", "eval"
    outcome,               \* how the last construction or bn(x) ended
    evals,                 \* the evaluation-mode outputs of the DropoutTestMLP models
    \* ---- nnx.Rngs objects of the Rngs demonstration -----------------
    streams,               \* [object -> [stream name -> [key, count]]]
    handed,                \* [object -> Seq] the keys each object has handed out
    \* ---- a second BatchNorm instance and concurrent callers ---------
    other,                 \* mean, var (by its root) and mode of the second instance
    threads,               \* [caller -> its position in bn(x) and what it has read]
    \* ---- logistic regression notebook -------------------------------
    prep,                  \* data preparation: records, labels, shuffles, split
    gd                     \* the gradient-descent loop: w, b, losses, position

dvars == <<rate, deterministic, key, count, uni, call, log>>
bvars == <<mean, var_root, scale, bias, use_running_average, ntrain, bncall, bnprev>>
xvars == <<switch, outcome, evals>>
yvars == <<streams, handed, other, threads, prep, gd>>
vars == <<rate, deterministic, key, count, uni, call, log,
          mean, var_root, scale, bias, use_running_average, ntrain, bncall, bnprev,
          switch, outcome, evals,
          streams, handed, other, threads, prep, gd>>

(***************************************************************************)
(* Bounds and input sets                                                   *)
(***************************************************************************)
MaxCalls == 2                   \* training-mode calls per Dropout layer
MaxTrainCalls == 2              \* training-mode calls of the BatchNorm layer
Layers == {1, 2}                \* two Dropout instances
Rates == {0, 5, 9}              \* p = 0, nnx.Dropout(0.5), nnx.Dropout(0.9)
Seeds == {0, 1}                 \* nnx.Rngs(0), nnx.Rngs(1)
Inputs == {<<1, 2>>, <<-3, 0>>} \* activations handed to a Dropout layer
UVals == {0, 2, 7}              \* one uniform draw per interval the rates cut [0,1) into
Batches == {<<0, 2>>, <<4, 4>>, <<0, 4>>}  \* batches of one feature handed to BatchNorm
ScaleVals == {1, 2}             \* values the optimizer gives gamma
BiasVals == {0, 1}              \* values the optimizer gives beta
NoCall == [layer |-> 0]
NoBNCall == [mode |-> "none"]

(***************************************************************************)
(* Rational arithmetic                                                     *)
(***************************************************************************)
Abs(n) == IF n < 0 THEN -n ELSE n

RECURSIVE GCD(_, _)
GCD(a, b) == IF b = 0 THEN a ELSE GCD(b, a % b)

\* n/d in lowest terms, d > 0
Rat(n, d) ==
    LET g == GCD(Abs(n), d)
    IN  IF n = 0 THEN <<0, 1>> ELSE <<n \div g, d \div g>>

FromInt(n) == <<n, 1>>

RAdd(p, q) ==
    LET l == (p[2] * q[2]) \div GCD(p[2], q[2])
    IN  Rat(p[1] * (l \div p[2]) + q[1] * (l \div q[2]), l)

RNeg(p) == <<-p[1], p[2]>>

RSub(p, q) == RAdd(p, RNeg(q))

RMul(p, q) == Rat(p[1] * q[1], p[2] * q[2])

RSq(p) == RMul(p, p)

\* the square root of a perfect square
ISqrt(n) == CHOOSE r \in 0..n : r * r = n

RSqrt(p) == <<ISqrt(p[1]), ISqrt(p[2])>>

RECURSIVE Sum(_)
Sum(s) == IF s = <<>> THEN 0 ELSE Head(s) + Sum(Tail(s))

(***************************************************************************)
(* nnx.Rngs / RngStream                                                    *)
(***************************************************************************)
\* nnx.Rngs(seed): the stream starts at count 0
NewCount == 0

\* A call on a stream hands out the key folded with the current count ...
StreamKey(k, c) == <<k, c>>

\* ... and advances the count ("the key automatically changes each time
\* rngs is called").
NoAdvance(c) == c
Advance(c) == c + 1

\* jax.random draws for a key: a function of the key alone.  The draws of a
\* key that has been used are the ones it gave before; a key used for the
\* first time may give any draws.
Unseeded(sk, shape) == [shape -> UVals]
Draws(sk, shape) ==
    IF sk \in DOMAIN uni THEN {uni[sk]} ELSE [shape -> UVals]

(***************************************************************************)
(* nnx.Dropout                                                             *)
(***************************************************************************)
\* rate is "the probability of dropping the activation and NOT the
\* probability of keeping the activation": an element is kept when its
\* uniform draw falls below the keep probability 1 - p.
KeepsWithRate(u, p) == u < p
Keeps(u, p) == u < 10 - p

Mask(u, p) == [i \in DOMAIN u |-> Keeps(u[i], p)]

\* "in training mode, the non-zero activations are multiplied by 1/(1-p)"
Unscaled(x, p) == FromInt(x)
Scaled(x, p) == Rat(10 * x, 10 - p)

\* training-mode output for a mask
Masked(x, m, p) == [i \in DOMAIN x |-> IF m[i] THEN Scaled(x[i], p) ELSE FromInt(0)]

\* "while in testing mode the activations are not changed"
EvalScaled(x, p) == [i \in DOMAIN x |-> Rat(x[i] * (10 - p), 10)]
EvalOutput(x, p) == [i \in DOMAIN x |-> FromInt(x[i])]

\* what layer(x) returns
OutputAlwaysMasked(det, x, m, p) == Masked(x, m, p)
Output(det, x, m, p) == IF det THEN EvalOutput(x, p) ELSE Masked(x, m, p)

\* the RngStream count after layer(x)
CountAlways(det, c) == Advance(c)
CountAfter(det, c) == IF det THEN c ELSE Advance(c)

\* layer = nnx.Dropout(p, rngs=nnx.Rngs(seed)), constructed twice with the
\* same arguments: "by default dropout layers are set to be in training mode
\* (deterministic=False)"
InitDropout ==
    /\ \E p \in Rates : rate = [l \in Layers |-> p]
    /\ \E s \in Seeds : key = [l \in Layers |-> s]
    /\ deterministic = [l \in Layers |-> FALSE]
    /\ count = [l \in Layers |-> NewCount]
    /\ uni = <<>>
    /\ call = NoCall
    /\ log = [l \in Layers |-> <<>>]

\* layer.train()
Train(l) ==
    /\ deterministic' = [deterministic EXCEPT ![l] = FALSE]
    /\ UNCHANGED <<rate, key, count, uni, call, log>>

\* layer.eval()
Eval(l) ==
    /\ deterministic' = [deterministic EXCEPT ![l] = TRUE]
    /\ UNCHANGED <<rate, key, count, uni, call, log>>

\* layer(x)
Call(l, x) ==
    LET det == deterministic[l]
        sk == StreamKey(key[l], count[l])
    IN  /\ det \/ Len(log[l]) < MaxCalls
        /\ \E u \in IF det THEN {[i \in DOMAIN x |-> 0]} ELSE Draws(sk, DOMAIN x) :
             LET m == Mask(u, rate[l])
             IN  /\ uni' = IF det \/ sk \in DOMAIN uni THEN uni ELSE uni @@ (sk :> u)
                 /\ count' = [count EXCEPT ![l] = CountAfter(det, count[l])]
                 /\ call' = [layer |-> l, det |-> det, x |-> x, rate |-> rate[l],
                             sk |-> sk, mask |-> m, out |-> Output(det, x, m, rate[l])]
                 /\ log' = IF det THEN log
                           ELSE [log EXCEPT ![l] = Append(@, [sk |-> sk, mask |-> m])]
        /\ UNCHANGED <<rate, deterministic, key>>

(***************************************************************************)
(* nnx.BatchNorm, one feature.                                             *)
(*                                                                         *)
(* A normalized activation a / sqrt(v + delta) + b is irrational, so it is *)
(* held as the record [a, root, b] with root the square root of v; delta   *)
(* (epsilon = 1e-05) stays symbolic.  Batches have a rational standard     *)
(* deviation, so every root is exact.                                      *)
(***************************************************************************)
MomentumNum == 99
MomentumDen == 100

\* alpha, "a momentum term close to 1": momentum=0.99
Alpha == Rat(MomentumNum, MomentumDen)

\* E[x] = 1/m sum_i x_i
BatchMean(x) == Rat(Sum(x), Len(x))

\* Var[x] = 1/m sum_i (x_i - E[x])^2, where x_i - E[x] = (m x_i - sum x) / m
BatchVar(x) ==
    LET m == Len(x)
        S == Sum(x)
    IN  Rat(Sum([i \in DOMAIN x |-> (m * x[i] - S) * (m * x[i] - S)]), m * m * m)

\* running = alpha * running + (1 - alpha) * batch
EmaNegMomentum(run, batch) ==
    RAdd(RMul(RNeg(Alpha), run), RMul(RAdd(FromInt(1), Alpha), batch))
Ema(run, batch) == RAdd(RMul(Alpha, run), RMul(RSub(FromInt(1), Alpha), batch))

\* BatchNorm.mean after a forward call
AlwaysNewMean(use_ra, m, x) == Ema(m, BatchMean(x))
NewMean(use_ra, m, x) == IF use_ra THEN m ELSE Ema(m, BatchMean(x))

\* BatchNorm.var after a forward call, by its root:
\* sqrt(Var_running) = alpha sqrt(Var_running) + (1 - alpha) sqrt(Var_batch)
NewVarRoot(use_ra, r, x) == IF use_ra THEN r ELSE Ema(r, RSqrt(BatchVar(x)))

\* x_hat = (x - E[x]) / sqrt(Var[x] + delta)
Normalize(xi, m, r) == [a |-> RSub(FromInt(xi), m), root |-> r, b |-> FromInt(0)]

\* h = gamma * x_hat + beta
AffineSwapped(g, bt, xh) ==
    [a |-> RMul(FromInt(bt), xh.a), root |-> xh.root,
     b |-> RAdd(RMul(FromInt(bt), xh.b), FromInt(g))]
Affine(g, bt, xh) ==
    [a |-> RMul(FromInt(g), xh.a), root |-> xh.root,
     b |-> RAdd(RMul(FromInt(g), xh.b), FromInt(bt))]

\* the statistics a forward call normalizes with: the batch's in training
\* mode, the stored running averages once use_running_average is set
BatchStatsOnly(use_ra, m, r, x) == [mean |-> BatchMean(x), root |-> RSqrt(BatchVar(x))]
RunningStatsOnly(use_ra, m, r, x) == [mean |-> m, root |-> r]
StatsUsed(use_ra, m, r, x) ==
    IF use_ra THEN [mean |-> m, root |-> r]
    ELSE [mean |-> BatchMean(x), root |-> RSqrt(BatchVar(x))]

\* what bn(x) returns
BNOutput(use_ra, m, r, g, bt, x) ==
    LET st == StatsUsed(use_ra, m, r, x)
    IN  [i \in DOMAIN x |-> Affine(g, bt, Normalize(x[i], st.mean, st.root))]

\* the initial values of the BatchStat variables
InitStats ==
    /\ mean = FromInt(0)
    /\ var_root = FromInt(1)

\* nnx.BatchNorm(dmid, rngs=rngs): scale_init ones, bias_init zeros,
\* use_running_average=False
InitBN ==
    /\ InitStats
    /\ scale = 1
    /\ bias = 0
    /\ use_running_average = FALSE
    /\ ntrain = 0
    /\ bncall = NoBNCall
    /\ bnprev = NoBNCall

\* bn.train()
BNTrain ==
    /\ use_running_average' = FALSE
    /\ UNCHANGED <<mean, var_root, scale, bias, ntrain, bncall, bnprev>>

\* bn.eval()
BNEval ==
    /\ use_running_average' = TRUE
    /\ UNCHANGED <<mean, var_root, scale, bias, ntrain, bncall, bnprev>>

\* bn(x)
BNCallTrainsScale(x) ==
    /\ use_running_average \/ ntrain < MaxTrainCalls
    /\ mean' = NewMean(use_running_average, mean, x)
    /\ var_root' = NewVarRoot(use_running_average, var_root, x)
    /\ ntrain' = IF use_running_average THEN ntrain ELSE ntrain + 1
    /\ bncall' = [mode |-> IF use_running_average THEN "eval" ELSE "train",
                  x |-> x, mean0 |-> mean, root0 |-> var_root,
                  scale |-> scale, bias |-> bias,
                  out |-> BNOutput(use_running_average, mean, var_root, scale, bias, x)]
    /\ bnprev' = bncall
    /\ scale' = IF use_running_average THEN scale ELSE scale + 1
    /\ UNCHANGED <<bias, use_running_average>>
BNCall(x) ==
    /\ use_running_average \/ ntrain < MaxTrainCalls
    /\ mean' = NewMean(use_running_average, mean, x)
    /\ var_root' = NewVarRoot(use_running_average, var_root, x)
    /\ ntrain' = IF use_running_average THEN ntrain ELSE ntrain + 1
    /\ bncall' = [mode |-> IF use_running_average THEN "eval" ELSE "train",
                  x |-> x, mean0 |-> mean, root0 |-> var_root,
                  scale |-> scale, bias |-> bias,
                  out |-> BNOutput(use_running_average, mean, var_root, scale, bias, x)]
    /\ bnprev' = bncall
    /\ UNCHANGED <<scale, bias, use_running_average>>

\* optimizer.update(grads): the Params move, by gradients this model does
\* not compute
UpdateResetsMode(g, bt) ==
    /\ scale' = g
    /\ bias' = bt
    /\ use_running_average' = FALSE
    /\ UNCHANGED <<mean, var_root, ntrain, bncall, bnprev>>
Update(g, bt) ==
    /\ scale' = g
    /\ bias' = bt
    /\ UNCHANGED <<mean, var_root, use_running_average, ntrain, bncall, bnprev>>

\* nnx.BatchNorm(num_features): the width of the feature axis the layer is
\* configured with, and the widths of the inputs it is called with; the model
\* follows the statistics of the first feature
NumFeatures == 10
Widths == {NumFeatures, NumFeatures + 1}

\* the input's feature axis has the configured width
ShapeOK(w) == w = NumFeatures

\* bn(x) with x of feature width w: the call, or the invalid-input error and
\* the layer left as it was
BNCallPartial(x, w) ==
    IF ShapeOK(w)
    THEN /\ BNCall(x)
         /\ outcome' = [kind |-> "ok", op |-> "BatchNorm", w |-> w,
                        mode |-> bncall'.mode, mean0 |-> mean, root0 |-> var_root]
    ELSE /\ outcome' = [kind |-> "invalid-input", op |-> "BatchNorm", w |-> w,
                        mode |-> IF use_running_average THEN "eval" ELSE "train",
                        mean0 |-> mean, root0 |-> var_root]
         /\ mean' = NewMean(use_running_average, mean, x)
         /\ UNCHANGED <<var_root, scale, bias, use_running_average, ntrain, bncall, bnprev>>
BNCallChecked(x, w) ==
    IF ShapeOK(w)
    THEN /\ BNCall(x)
         /\ outcome' = [kind |-> "ok", op |-> "BatchNorm", w |-> w,
                        mode |-> bncall'.mode, mean0 |-> mean, root0 |-> var_root]
    ELSE /\ outcome' = [kind |-> "invalid-input", op |-> "BatchNorm", w |-> w,
                        mode |-> IF use_running_average THEN "eval" ELSE "train",
                        mean0 |-> mean, root0 |-> var_root]
         /\ UNCHANGED bvars

\* two-dimensional inputs (rows of two activations) of the broadcast_dims cell
Matrices == {<< <<1, 2>>, <<-3, 4>> >>, << <<2, -1>>, <<0, 5>> >>}

\* broadcast_dims=(1,): the mask has size 1 along axis 1, so element (r, c)
\* takes the mask value drawn for (r, 1)
MaskIndexPerElement(r, c) == <<r, c>>
MaskIndex(r, c) == <<r, 1>>

\* the positions a mask value is drawn for
MaskShape(x) == {MaskIndex(r, c) : r \in DOMAIN x, c \in DOMAIN x[1]}

\* layer(x) of nnx.Dropout(p, broadcast_dims=(1,), rngs=...) on rows x
CallBroadcast(l, x) ==
    LET det == deterministic[l]
        sk == StreamKey(key[l], count[l])
    IN  /\ det \/ Len(log[l]) < MaxCalls
        /\ \E u \in IF det THEN {[i \in MaskShape(x) |-> 0]} ELSE Draws(sk, MaskShape(x)) :
             LET m == [r \in DOMAIN x |->
                         [c \in DOMAIN x[r] |-> Keeps(u[MaskIndex(r, c)], rate[l])]]
             IN  /\ uni' = IF det \/ sk \in DOMAIN uni THEN uni ELSE uni @@ (sk :> u)
                 /\ count' = [count EXCEPT ![l] = CountAfter(det, count[l])]
                 /\ call' = [layer |-> l, det |-> det, x |-> x, rate |-> rate[l],
                             sk |-> sk, mask |-> m,
                             out |-> [r \in DOMAIN x |-> Output(det, x[r], m[r], rate[l])]]
                 /\ log' = IF det THEN log
                           ELSE [log EXCEPT ![l] = Append(@, [sk |-> sk, mask |-> m])]
        /\ UNCHANGED <<rate, deterministic, key>>

\* the drop probabilities nnx.Dropout is asked to construct with, in tenths:
\* -0.1, 0, 0.5, 1.0 and 1.1
CtorRates == {-1, 0, 5, 10, 11}
CtorInputs == {<<1>>, <<-3>>}
\* rngs=nnx.Rngs(0)
CtorSeeds == {0}

\* construction accepts a drop probability p with 0 <= p < 1
ValidRateClosed(p) == 0 <= p /\ p <= 10
ValidRate(p) == 0 <= p /\ p < 10

\* layer = nnx.Dropout(p, rngs=nnx.Rngs(s)): a fresh layer bound to the name,
\* or the invalid-configuration error and the name left as it was
Construct(l, p, s) ==
    IF ValidRate(p)
    THEN /\ rate' = [rate EXCEPT ![l] = p]
         /\ key' = [key EXCEPT ![l] = s]
         /\ deterministic' = [deterministic EXCEPT ![l] = FALSE]
         /\ count' = [count EXCEPT ![l] = NewCount]
         /\ log' = [log EXCEPT ![l] = <<>>]
         /\ outcome' = [kind |-> "ok", op |-> "Dropout", p |-> p]
         /\ UNCHANGED <<uni, call>>
    ELSE /\ outcome' = [kind |-> "invalid-configuration", op |-> "Dropout", p |-> p]
         /\ UNCHANGED dvars

(***************************************************************************)
(* BatchNormMLP: linear1, bn, dropout, linear2.  The last revision of the  *)
(* class holds nnx.Dropout(rate=0.1) and nnx.BatchNorm(dmid).  Layer 1 is  *)
(* self.dropout; the Linear layers hold no mode and no statistics, and     *)
(* linear1's output is the batch x handed to bn.                           *)
(***************************************************************************)
ModelRate == 1
ModelSeed == 0

\* model = BatchNormMLP(3, 10, 2, rngs=nnx.Rngs(0))
InitModelDropoutEval ==
    /\ rate = [l \in Layers |-> ModelRate]
    /\ key = [l \in Layers |-> ModelSeed]
    /\ deterministic = [l \in Layers |-> TRUE]
    /\ count = [l \in Layers |-> NewCount]
    /\ uni = <<>>
    /\ call = NoCall
    /\ log = [l \in Layers |-> <<>>]
InitModelDropout ==
    /\ rate = [l \in Layers |-> ModelRate]
    /\ key = [l \in Layers |-> ModelSeed]
    /\ deterministic = [l \in Layers |-> FALSE]
    /\ count = [l \in Layers |-> NewCount]
    /\ uni = <<>>
    /\ call = NoCall
    /\ log = [l \in Layers |-> <<>>]

\* model.train(): every sub-layer that has the attribute gets
\* deterministic=False, use_running_average=False
ModelTrainBNOnly ==
    /\ UNCHANGED deterministic
    /\ use_running_average' = FALSE
    /\ UNCHANGED <<rate, key, count, uni, call, log>>
    /\ UNCHANGED <<mean, var_root, scale, bias, ntrain, bncall, bnprev>>
ModelTrain ==
    /\ deterministic' = [deterministic EXCEPT ![1] = FALSE]
    /\ use_running_average' = FALSE
    /\ UNCHANGED <<rate, key, count, uni, call, log>>
    /\ UNCHANGED <<mean, var_root, scale, bias, ntrain, bncall, bnprev>>

\* model.eval(): deterministic=True, use_running_average=True
ModelEvalDropoutOnly ==
    /\ deterministic' = [deterministic EXCEPT ![1] = TRUE]
    /\ UNCHANGED use_running_average
    /\ UNCHANGED <<rate, key, count, uni, call, log>>
    /\ UNCHANGED <<mean, var_root, scale, bias, ntrain, bncall, bnprev>>
ModelEval ==
    /\ deterministic' = [deterministic EXCEPT ![1] = TRUE]
    /\ use_running_average' = TRUE
    /\ UNCHANGED <<rate, key, count, uni, call, log>>
    /\ UNCHANGED <<mean, var_root, scale, bias, ntrain, bncall, bnprev>>

\* self.dropout(h) on normalized activations h: the factor each h[i] is
\* multiplied by
Factor(det, keep, p) ==
    IF det THEN FromInt(1) ELSE IF keep THEN Rat(10, 10 - p) ELSE FromInt(0)

DropoutOn(l, h) ==
    LET det == deterministic[l]
        sk == StreamKey(key[l], count[l])
    IN  /\ det \/ Len(log[l]) < MaxCalls
        /\ \E u \in IF det THEN {[i \in DOMAIN h |-> 0]} ELSE Draws(sk, DOMAIN h) :
             LET m == Mask(u, rate[l])
             IN  /\ uni' = IF det \/ sk \in DOMAIN uni THEN uni ELSE uni @@ (sk :> u)
                 /\ count' = [count EXCEPT ![l] = CountAfter(det, count[l])]
                 /\ call' = [layer |-> l, det |-> det, x |-> h, rate |-> rate[l],
                             sk |-> sk, mask |-> m,
                             out |-> [i \in DOMAIN h |->
                                        [h |-> h[i], times |-> Factor(det, m[i], rate[l])]]]
                 /\ log' = IF det THEN log
                           ELSE [log EXCEPT ![l] = Append(@, [sk |-> sk, mask |-> m])]
        /\ UNCHANGED <<rate, deterministic, key>>

\* model(x): nnx.relu(self.dropout(self.bn(self.linear1(x)))), "BatchNorm
\* applied first, Dropout second"
ModelCall(x) ==
    /\ BNCall(x)
    /\ DropoutOn(1, BNOutput(use_running_average, mean, var_root, scale, bias, x))

(***************************************************************************)
(* DropoutTestMLP: linear1, relu, dropout, linear2, all built from one     *)
(* nnx.Rngs(0).  The two Linear kernels take the first two keys of the     *)
(* stream at construction; the Dropout layer draws from the same stream.   *)
(* Model m holds Dropout layer m.  The widths are scaled down: one input,  *)
(* Units hidden units, one output.                                         *)
(***************************************************************************)
MaxMlpTrainCalls == 1
Units == 1..1
MlpRate == 5
MlpSeed == 0
MlpInputs == {3}
\* the keys the constructor has taken from the stream for the two kernels
KernelDraws == 2

\* the kernel initializer: a weight from the value drawn
KernelInit(u) == u - 2

\* self.linearN's kernel, drawn at construction with the N-th key of the stream
Kernel(m, n) == [i \in Units |-> KernelInit(uni[StreamKey(key[m], n - 1)][i])]

\* nnx.relu(self.linear1(x))
Relu(v) == IF v > 0 THEN v ELSE 0
Hidden(m, x) == [i \in Units |-> Relu(Kernel(m, 1)[i] * x)]

RECURSIVE RSum(_, _)
RSum(f, S) ==
    IF S = {} THEN FromInt(0)
    ELSE LET i == CHOOSE j \in S : TRUE
         IN  RAdd(f[i], RSum(f, S \ {i}))

\* self.linear2(d)
Linear2(m, dd) == RSum([i \in Units |-> RMul(FromInt(Kernel(m, 2)[i]), dd[i])], Units)

\* model = DropoutTestMLP(nnx.Rngs(0)), twice
InitMLP ==
    /\ rate = [m \in Layers |-> MlpRate]
    /\ key = [m \in Layers |-> MlpSeed]
    /\ deterministic = [m \in Layers |-> FALSE]
    /\ count = [m \in Layers |-> NewCount + KernelDraws]
    /\ \E k1 \in [Units -> UVals], k2 \in [Units -> UVals] :
          uni = (StreamKey(MlpSeed, 0) :> k1) @@ (StreamKey(MlpSeed, 1) :> k2)
    /\ call = NoCall
    /\ log = [m \in Layers |-> <<>>]

\* model(x): the mask u is the one a training-mode call draws; an
\* evaluation-mode call takes no key and its output is recorded as printed
MLPCall(m, x) ==
    LET det == deterministic[m]
        sk == StreamKey(key[m], count[m])
        h == Hidden(m, x)
    IN  /\ det \/ Len(log[m]) < MaxMlpTrainCalls
        /\ \E u \in Draws(sk, Units) :
             LET mk == Mask(u, rate[m])
                 dd == Output(det, h, mk, rate[m])
             IN  /\ uni' = IF det \/ sk \in DOMAIN uni THEN uni ELSE uni @@ (sk :> u)
                 /\ count' = [count EXCEPT ![m] = CountAfter(det, count[m])]
                 /\ call' = [layer |-> m, det |-> det, x |-> h, rate |-> rate[m],
                             sk |-> sk, mask |-> mk, out |-> dd]
                 /\ log' = IF det THEN log
                           ELSE [log EXCEPT ![m] = Append(@, [sk |-> sk, mask |-> mk])]
                 /\ evals' = IF det
                             THEN evals \cup {[m |-> m, x |-> x, trained |-> Len(log[m]),
                                               out |-> Linear2(m, dd)]}
                             ELSE evals
        /\ UNCHANGED <<rate, deterministic, key>>

(***************************************************************************)
(* The nnx.Rngs demonstration.  Object 1 is nnx.Rngs(0), object 2 is       *)
(* nnx.Rngs(0, params=1).  An Rngs object holds one RngStream per seed it  *)
(* was given: nnx.Rngs(0) holds the stream "default" only (the display of  *)
(* a Dropout layer, whose rng_collection is 'dropout', shows exactly that  *)
(* one stream), and a name without a stream of its own is served by        *)
(* "default".                                                              *)
(***************************************************************************)
MaxKeyCalls == 3
RngsObjects == {1, 2}
\* rngs.params(), rngs.dropout(), rngs.random_stream_whatever_I_want()
StreamNames == {"params", "dropout", "whatever"}
DefaultSeed == 0
ParamsSeed == 1

NewStream(seed) == [key |-> seed, count |-> NewCount]

\* rngs = nnx.Rngs(0); rngs = nnx.Rngs(0, params=1)
InitRngs ==
    /\ streams = [o \in RngsObjects |->
                    IF o = 1 THEN ("default" :> NewStream(DefaultSeed))
                    ELSE ("default" :> NewStream(DefaultSeed))
                           @@ ("params" :> NewStream(ParamsSeed))]
    /\ handed = [o \in RngsObjects |-> <<>>]

\* the stream that serves rngs.<name>()
Served(o, name) == IF name \in DOMAIN streams[o] THEN name ELSE "default"

\* rngs.<name>(): the key of the serving stream folded with its count; the
\* count then advances
RngsCall(o, name) ==
    LET st == Served(o, name)
        s == streams[o][st]
    IN  /\ Len(handed[o]) < MaxKeyCalls
        /\ streams' = [streams EXCEPT ![o][st].count = Advance(s.count)]
        /\ handed' = [handed EXCEPT ![o] =
                        Append(@, [name |-> name, stream |-> st, count |-> s.count,
                                   sk |-> StreamKey(s.key, s.count)])]

(***************************************************************************)
(* A second BatchNorm instance (the bn of a second BatchNormMLP), and      *)
(* bn(x) of the first instance taken apart into the read of the running    *)
(* statistics and the write of the updated ones.                           *)
(***************************************************************************)
\* model2 = BatchNormMLP(...): its bn, in training mode
InitOther ==
    other = [built |-> TRUE, mean |-> FromInt(0), var_root |-> FromInt(1),
             use_running_average |-> FALSE, ntrain |-> 0]

\* model2.bn(x)
OtherCallAliased(x) ==
    /\ other.built
    /\ other.use_running_average \/ other.ntrain < MaxTrainCalls
    /\ other' = [other EXCEPT
                   !.mean = NewMean(other.use_running_average, other.mean, x),
                   !.var_root = NewVarRoot(other.use_running_average, other.var_root, x),
                   !.ntrain = IF other.use_running_average THEN @ ELSE @ + 1]
    /\ mean' = other'.mean
    /\ var_root' = other'.var_root
    /\ UNCHANGED <<scale, bias, use_running_average, ntrain, bncall, bnprev>>
OtherCall(x) ==
    /\ other.built
    /\ other.use_running_average \/ other.ntrain < MaxTrainCalls
    /\ other' = [other EXCEPT
                   !.mean = NewMean(other.use_running_average, other.mean, x),
                   !.var_root = NewVarRoot(other.use_running_average, other.var_root, x),
                   !.ntrain = IF other.use_running_average THEN @ ELSE @ + 1]
    /\ UNCHANGED bvars

Callers == {1, 2}
RaceBatches == {<<0, 2>>, <<4, 4>>, <<0, 4>>, <<2, 6>>, <<1, 5>>}

\* a notebook cell runs one call at a time: nobody else is inside bn(x)
MaySuspend(c) == TRUE
RunsToCompletion(c) == \A c2 \in Callers \ {c} : threads[c2].pc # "read"

\* bn(x), first half: the caller reads the running statistics
ReadStats(c, x) ==
    /\ threads[c].pc = "idle"
    /\ RunsToCompletion(c)
    /\ ~use_running_average
    /\ threads' = [threads EXCEPT ![c] =
                     [pc |-> "read", x |-> x, mean0 |-> mean, root0 |-> var_root]]
    /\ UNCHANGED bvars

\* bn(x), second half: the caller writes the statistics it computed from what
\* it read, and returns
WriteStats(c) ==
    LET t == threads[c]
    IN  /\ t.pc = "read"
        /\ mean' = NewMean(FALSE, t.mean0, t.x)
        /\ var_root' = NewVarRoot(FALSE, t.root0, t.x)
        /\ ntrain' = ntrain + 1
        /\ bncall' = [mode |-> "train", x |-> t.x, mean0 |-> t.mean0, root0 |-> t.root0,
                      scale |-> scale, bias |-> bias,
                      out |-> BNOutput(FALSE, t.mean0, t.root0, scale, bias, t.x)]
        /\ bnprev' = bncall
        /\ threads' = [threads EXCEPT ![c].pc = "done"]
        /\ UNCHANGED <<scale, bias, use_running_average>>

(***************************************************************************)
(* Logistic regression notebook, data preparation: the records are         *)
(* shuffled and split into a training and a testing set.  Record i has the *)
(* feature row i and the label y[i].                                       *)
(***************************************************************************)
MaxRecords == 4
Labels == {0, 1}

\* X = jnp.asarray(dataset[:,2:]...): the feature rows, one per record
Rows(n) == [i \in 1..n |-> i]

\* key, subkey = random.split(key): two different keys
SplitKeys == [key |-> "key", subkey |-> "subkey"]

\* the key X is permuted with and the key y is permuted with
XKey == SplitKeys.subkey
YKeyOther == SplitKeys.key
YKey == SplitKeys.subkey

\* random.permutation(k, a, axis=0): the order is a function of the key and of
\* the length; a key used before gives the order it gave before
PermsOf(k, n) ==
    IF k \in DOMAIN prep.perms THEN {prep.perms[k]} ELSE Permutations(1..n)

Permuted(a, sigma) == [i \in DOMAIN a |-> a[sigma[i]]]

\* N_div = int(0.8 * X.shape[0])
SplitNum == 8
SplitDen == 10
NDiv(n) == (SplitNum * n) \div SplitDen

\* a[:N_div] and a[N_div:], positions counted from 1
TestFromOverlap(nd) == nd
TestFrom(nd) == nd + 1
TrainPart(a, nd) == SubSeq(a, 1, nd)
TestPart(a, nd) == SubSeq(a, TestFrom(nd), Len(a))

\* df = pd.read_csv(...); X = ...; y = ...
InitPrep ==
    \E n \in 2..MaxRecords : \E y \in [1..n -> Labels] :
        prep = [pc |-> "loaded", n |-> n, X |-> Rows(n), y |-> y, perms |-> <<>>]

\* X_shuffled = random.permutation(subkey, X, axis=0)
ShuffleX ==
    /\ prep.pc = "loaded"
    /\ \E sigma \in PermsOf(XKey, prep.n) :
          prep' = [pc |-> "shuffledX", n |-> prep.n, X |-> prep.X, y |-> prep.y,
                   perms |-> (XKey :> sigma) @@ prep.perms,
                   Xs |-> Permuted(prep.X, sigma)]

\* y_shuffled = random.permutation(subkey, y, axis=0)
ShuffleY ==
    /\ prep.pc = "shuffledX"
    /\ \E sigma \in PermsOf(YKey, prep.n) :
          prep' = [pc |-> "shuffled", n |-> prep.n, X |-> prep.X, y |-> prep.y,
                   perms |-> (YKey :> sigma) @@ prep.perms,
                   Xs |-> prep.Xs, ys |-> Permuted(prep.y, sigma)]

\* N_div = ...; X_train, y_train, X_test, y_test = ...
SplitData ==
    /\ prep.pc = "shuffled"
    /\ LET nd == NDiv(prep.n)
       IN  prep' = [pc |-> "split", n |-> prep.n, X |-> prep.X, y |-> prep.y,
                    perms |-> prep.perms, Xs |-> prep.Xs, ys |-> prep.ys,
                    X_train |-> TrainPart(prep.Xs, nd), y_train |-> TrainPart(prep.ys, nd),
                    X_test |-> TestPart(prep.Xs, nd), y_test |-> TestPart(prep.ys, nd)]

(***************************************************************************)
(* Logistic regression notebook, the manual gradient-descent loop.  The    *)
(* loss and its gradients are logarithms and exponentials of w and b, held *)
(* here as terms: <<"const", v>> is the number v, <<"loss", w, b>>,        *)
(* <<"dw", w, b>> and <<"db", w, b>> are the loss and its two partial      *)
(* derivatives at (w, b), and <<"step", v, g>> is v - lr * g.              *)
(***************************************************************************)
N_train == 3
WInits == -4..4

Const(v) == <<"const", v>>

\* loss_grad_fn(w, b) = (loss, (dloss/dw, dloss/db)), all three at (w, b)
Loss(w, b) == <<"loss", w, b>>
GradW(w, b) == <<"dw", w, b>>
GradB(w, b) == <<"db", w, b>>

\* v - lr * g
Step(v, g) == <<"step", v, g>>

\* w_init = random.normal(subkey); b_init = 0.0; losses = []; w = w_init;
\* b = b_init
InitGD ==
    \E w0 \in WInits :
        gd = [pc |-> "for", i |-> 0, w_init |-> Const(w0), b_init |-> Const(0),
              w |-> Const(w0), b |-> Const(0), losses |-> <<>>]

\* for _ in range(N_train):
ForTest ==
    /\ gd.pc = "for"
    /\ gd' = [gd EXCEPT !.pc = IF gd.i < N_train THEN "grad" ELSE "done"]

\* loss, grads = loss_grad_fn(w, b)
EvalLossGrad ==
    /\ gd.pc = "grad"
    /\ gd' = [pc |-> "append", i |-> gd.i, w_init |-> gd.w_init, b_init |-> gd.b_init,
              w |-> gd.w, b |-> gd.b, losses |-> gd.losses,
              loss |-> Loss(gd.w, gd.b),
              grads |-> <<GradW(gd.w, gd.b), GradB(gd.w, gd.b)>>]

\* losses.append(loss)
AppendLoss ==
    /\ gd.pc = "append"
    /\ gd' = [gd EXCEPT !.pc = "upd_w", !.losses = Append(@, gd.loss)]

\* w = w - lr * grads[0]
UpdateW ==
    /\ gd.pc = "upd_w"
    /\ gd' = [gd EXCEPT !.pc = "upd_b", !.w = Step(@, gd.grads[1])]

\* the gradient the update of b uses: grads[1], computed before w changed
GradForBRecomputed(g) == GradB(g.w, g.b)
GradForB(g) == g.grads[2]

\* b = b - lr * grads[1], and the iteration ends
UpdateB ==
    /\ gd.pc = "upd_b"
    /\ gd' = [pc |-> "for", i |-> gd.i + 1, w_init |-> gd.w_init, b_init |-> gd.b_init,
              w |-> gd.w, b |-> Step(gd.b, GradForB(gd)), losses |-> gd.losses]

(***************************************************************************)
(* Specifications                                                          *)
(***************************************************************************)
\* nothing switched, nothing constructed or refused, nothing evaluated yet
InitSeen ==
    /\ switch = "none"
    /\ outcome = [kind |-> "none"]
    /\ evals = {}

\* the Rngs demonstration and the logistic regression notebook not run, no
\* second BatchNorm instance built, no caller inside bn(x)
InitIdle ==
    /\ streams = <<>>
    /\ handed = <<>>
    /\ other = [built |-> FALSE]
    /\ threads = <<>>
    /\ prep = [pc |-> "none"]
    /\ gd = [pc |-> "none"]

Init == InitDropout /\ InitBN /\ InitSeen /\ InitIdle

\* one Dropout layer: layer.train(), layer.eval(), layer(x)
Next ==
    \/ Train(1) /\ UNCHANGED bvars /\ UNCHANGED xvars /\ UNCHANGED yvars
    \/ Eval(1) /\ UNCHANGED bvars /\ UNCHANGED xvars /\ UNCHANGED yvars
    \/ \E x \in Inputs : Call(1, x) /\ UNCHANGED bvars /\ UNCHANGED xvars /\ UNCHANGED yvars

Spec == Init /\ [][Next]_vars

\* two Dropout layers constructed alike, both called in training mode
NextPair ==
    \E l \in Layers, x \in Inputs : Call(l, x) /\ UNCHANGED bvars /\ UNCHANGED xvars /\ UNCHANGED yvars

SpecPair == Init /\ [][NextPair]_vars

\* a cell that rebinds layer: nnx.Dropout(...), layer.train(), layer.eval(),
\* layer(x)
NextCtor ==
    \/ \E p \in CtorRates, s \in CtorSeeds :
          Construct(1, p, s) /\ UNCHANGED bvars /\ UNCHANGED <<switch, evals>> /\ UNCHANGED yvars
    \/ Train(1) /\ UNCHANGED bvars /\ UNCHANGED xvars /\ UNCHANGED yvars
    \/ Eval(1) /\ UNCHANGED bvars /\ UNCHANGED xvars /\ UNCHANGED yvars
    \/ \E x \in CtorInputs : Call(1, x) /\ UNCHANGED bvars /\ UNCHANGED xvars /\ UNCHANGED yvars

InitModel == InitModelDropout /\ InitBN /\ InitSeen /\ InitIdle

SpecCtor == InitModel /\ [][NextCtor]_vars

\* the batch the training loop feeds the model
LoopBatches == {<<0, 4>>}

\* model.train() as the caller asks for it
SetTrainingMode ==
    /\ ModelTrain
    /\ switch' = "train"
    /\ UNCHANGED <<outcome, evals>> /\ UNCHANGED yvars

\* model.eval() as the caller asks for it
SetEvaluationMode ==
    /\ ModelEval
    /\ switch' = "eval"
    /\ UNCHANGED <<outcome, evals>> /\ UNCHANGED yvars

\* a training or testing loop over the composed model: model.train(),
\* model.eval(), model(x), optimizer.update(grads)
NextLoop ==
    \/ SetTrainingMode
    \/ SetEvaluationMode
    \/ \E x \in LoopBatches : ModelCall(x) /\ UNCHANGED xvars /\ UNCHANGED yvars
    \/ \E g \in ScaleVals, bt \in BiasVals :
          Update(g, bt) /\ UNCHANGED dvars /\ UNCHANGED xvars /\ UNCHANGED yvars

SpecLoop == InitModel /\ [][NextLoop]_vars

\* the DropoutTestMLP cells: model.train(), model.eval(), print(model(x)) on
\* a model that is trained first and on a fresh one
NextMLP ==
    \/ \E m \in Layers : Train(m) /\ UNCHANGED bvars /\ UNCHANGED xvars /\ UNCHANGED yvars
    \/ \E m \in Layers : Eval(m) /\ UNCHANGED bvars /\ UNCHANGED xvars /\ UNCHANGED yvars
    \/ \E m \in Layers, x \in MlpInputs :
          MLPCall(m, x) /\ UNCHANGED bvars /\ UNCHANGED <<switch, outcome>> /\ UNCHANGED yvars

InitTwoMLP == InitMLP /\ InitBN /\ InitSeen /\ InitIdle

SpecMLP == InitTwoMLP /\ [][NextMLP]_vars

\* bn.train(), bn.eval() and bn(x) with inputs of the configured width and of
\* another width
NextShape ==
    \/ BNTrain /\ UNCHANGED dvars /\ UNCHANGED xvars /\ UNCHANGED yvars
    \/ BNEval /\ UNCHANGED dvars /\ UNCHANGED xvars /\ UNCHANGED yvars
    \/ \E x \in Batches, w \in Widths :
          BNCallChecked(x, w) /\ UNCHANGED dvars /\ UNCHANGED <<switch, evals>> /\ UNCHANGED yvars

SpecShape == InitModel /\ [][NextShape]_vars

\* one BatchNorm layer: bn.train(), bn.eval(), bn(x), optimizer.update(grads)
NextBN ==
    \/ BNTrain /\ UNCHANGED dvars /\ UNCHANGED xvars /\ UNCHANGED yvars
    \/ BNEval /\ UNCHANGED dvars /\ UNCHANGED xvars /\ UNCHANGED yvars
    \/ \E x \in Batches : BNCall(x) /\ UNCHANGED dvars /\ UNCHANGED xvars /\ UNCHANGED yvars
    \/ \E g \in ScaleVals, bt \in BiasVals : Update(g, bt) /\ UNCHANGED dvars /\ UNCHANGED xvars /\ UNCHANGED yvars

SpecBN == InitModel /\ [][NextBN]_vars

\* a BatchNorm layer next to a Dropout layer, each called on its own:
\* bn.train(), bn.eval(), bn(x), optimizer.update(grads), layer(x)
NextFrame ==
    \/ BNTrain /\ UNCHANGED dvars /\ UNCHANGED xvars /\ UNCHANGED yvars
    \/ BNEval /\ UNCHANGED dvars /\ UNCHANGED xvars /\ UNCHANGED yvars
    \/ \E x \in LoopBatches : BNCall(x) /\ UNCHANGED dvars /\ UNCHANGED xvars /\ UNCHANGED yvars
    \/ \E g \in ScaleVals, bt \in BiasVals : Update(g, bt) /\ UNCHANGED dvars /\ UNCHANGED xvars /\ UNCHANGED yvars
    \/ \E x \in CtorInputs : Call(1, x) /\ UNCHANGED bvars /\ UNCHANGED xvars /\ UNCHANGED yvars

SpecFrame == InitModel /\ [][NextFrame]_vars

\* the broadcast_dims cell: layer.train(), layer.eval(), layer(x) on rows
NextBroadcast ==
    \/ Train(1) /\ UNCHANGED bvars /\ UNCHANGED xvars /\ UNCHANGED yvars
    \/ Eval(1) /\ UNCHANGED bvars /\ UNCHANGED xvars /\ UNCHANGED yvars
    \/ \E x \in Matrices : CallBroadcast(1, x) /\ UNCHANGED bvars /\ UNCHANGED xvars /\ UNCHANGED yvars

SpecBroadcast == Init /\ [][NextBroadcast]_vars

\* the Rngs demonstration cell: calls on the streams of the two objects
NextRngs ==
    \E o \in RngsObjects, name \in StreamNames :
        /\ RngsCall(o, name)
        /\ UNCHANGED <<dvars, bvars, xvars, other, threads, prep, gd>>

InitRngsDemo ==
    /\ InitModelDropout /\ InitBN /\ InitSeen
    /\ InitRngs
    /\ other = [built |-> FALSE]
    /\ threads = <<>>
    /\ prep = [pc |-> "none"]
    /\ gd = [pc |-> "none"]

SpecRngs == InitRngsDemo /\ [][NextRngs]_vars

\* two BatchNormMLP models, each calling its own bn in training mode
NextTwoBN ==
    \/ \E x \in Batches :
          BNCall(x) /\ UNCHANGED <<dvars, xvars, streams, handed, other, threads, prep, gd>>
    \/ \E x \in Batches :
          OtherCall(x) /\ UNCHANGED <<dvars, xvars, streams, handed, threads, prep, gd>>

InitTwoBN ==
    /\ InitModelDropout /\ InitBN /\ InitSeen
    /\ InitOther
    /\ streams = <<>>
    /\ handed = <<>>
    /\ threads = <<>>
    /\ prep = [pc |-> "none"]
    /\ gd = [pc |-> "none"]

SpecTwoBN == InitTwoBN /\ [][NextTwoBN]_vars

\* two callers of one bn, one training-mode call each
NextCallers ==
    \/ \E c \in Callers, x \in RaceBatches :
          ReadStats(c, x) /\ UNCHANGED <<dvars, xvars, streams, handed, other, prep, gd>>
    \/ \E c \in Callers :
          WriteStats(c) /\ UNCHANGED <<dvars, xvars, streams, handed, other, prep, gd>>

InitCallers ==
    /\ InitModelDropout /\ InitBN /\ InitSeen
    /\ threads = [c \in Callers |-> [pc |-> "idle"]]
    /\ streams = <<>>
    /\ handed = <<>>
    /\ other = [built |-> FALSE]
    /\ prep = [pc |-> "none"]
    /\ gd = [pc |-> "none"]

SpecCallers == InitCallers /\ [][NextCallers]_vars

\* the data preparation cell
NextPrep ==
    \/ ShuffleX /\ UNCHANGED <<dvars, bvars, xvars, streams, handed, other, threads, gd>>
    \/ ShuffleY /\ UNCHANGED <<dvars, bvars, xvars, streams, handed, other, threads, gd>>
    \/ SplitData /\ UNCHANGED <<dvars, bvars, xvars, streams, handed, other, threads, gd>>

InitPrepCell ==
    /\ InitModelDropout /\ InitBN /\ InitSeen
    /\ InitPrep
    /\ streams = <<>>
    /\ handed = <<>>
    /\ other = [built |-> FALSE]
    /\ threads = <<>>
    /\ gd = [pc |-> "none"]

SpecPrep == InitPrepCell /\ [][NextPrep]_vars

\* the gradient-descent cell
NextGD ==
    \/ ForTest /\ UNCHANGED <<dvars, bvars, xvars, streams, handed, other, threads, prep>>
    \/ EvalLossGrad /\ UNCHANGED <<dvars, bvars, xvars, streams, handed, other, threads, prep>>
    \/ AppendLoss /\ UNCHANGED <<dvars, bvars, xvars, streams, handed, other, threads, prep>>
    \/ UpdateW /\ UNCHANGED <<dvars, bvars, xvars, streams, handed, other, threads, prep>>
    \/ UpdateB /\ UNCHANGED <<dvars, bvars, xvars, streams, handed, other, threads, prep>>

InitGDCell ==
    /\ InitModelDropout /\ InitBN /\ InitSeen
    /\ InitGD
    /\ streams = <<>>
    /\ handed = <<>>
    /\ other = [built |-> FALSE]
    /\ threads = <<>>
    /\ prep = [pc |-> "none"]

SpecGD == InitGDCell /\ [][NextGD]_vars

\* the composed model: model.train(), model.eval(), model(x)
NextModel ==
    \/ ModelTrain /\ UNCHANGED xvars /\ UNCHANGED yvars
    \/ ModelEval /\ UNCHANGED xvars /\ UNCHANGED yvars
    \/ \E x \in Batches : ModelCall(x) /\ UNCHANGED xvars /\ UNCHANGED yvars

SpecModel == InitModel /\ [][NextModel]_vars

(***************************************************************************)
(* Properties                                                              *)
(***************************************************************************)
Called == call.layer # 0

C2_TrainZeroOrScaled ==
    (Called /\ ~call.det) =>
        \A i \in DOMAIN call.x :
            /\ call.mask[i] => call.out[i] = Rat(10 * call.x[i], 10 - call.rate)
            /\ ~call.mask[i] => call.out[i] = FromInt(0)

\* a training call of a p = 0.5 layer that keeps one element and drops the other
C2_Witness ==
    /\ Called /\ ~call.det
    /\ call.rate = 5
    /\ call.x = <<1, 2>>
    /\ call.mask = <<TRUE, FALSE>>
    /\ call.out = <<FromInt(2), FromInt(0)>>

C4_SameSeedSameMasks ==
    (rate[1] = rate[2] /\ key[1] = key[2]) =>
        \A k \in 1..Len(log[1]) :
            k <= Len(log[2]) => log[1][k].mask = log[2][k].mask

\* both layers called twice, the first and the second mask differing
C4_Witness ==
    /\ rate[1] = 5 /\ rate[2] = 5 /\ key[1] = key[2]
    /\ Len(log[1]) >= 2 /\ Len(log[2]) >= 2
    /\ log[1][1].mask # log[1][2].mask
    /\ log[2][2].mask = <<FALSE, TRUE>>

\* C5: after any sequence of model.train() / model.eval() / model(x), the
\* Dropout and the BatchNorm of the model are in the same mode.
C5_NoMixedMode == deterministic[1] = use_running_average

\* trained, switched to evaluation by model.eval(), then called
C5_Witness ==
    /\ deterministic[1] /\ use_running_average
    /\ ntrain > 0
    /\ bncall.mode = "eval"
    /\ Called /\ call.det

\* C6, as claimed: every training-mode call replaces the running statistics by
\* mean' = alpha mean + (1 - alpha) batch_mean and
\* var' = alpha var + (1 - alpha) batch_var.
C6_EmaOfVariance ==
    bncall.mode = "train" =>
        /\ mean = Ema(bncall.mean0, BatchMean(bncall.x))
        /\ RSq(var_root) = Ema(RSq(bncall.root0), BatchVar(bncall.x))

\* C7, as claimed: a fresh BatchNorm has mean 0 and var 1, and after exactly
\* one training call on a batch of mean m and variance v it has mean
\* (1 - alpha) m and var alpha + (1 - alpha) v.
C7_FirstTrainingCall ==
    /\ ntrain = 0 => (mean = FromInt(0) /\ RSq(var_root) = FromInt(1))
    /\ (ntrain = 1 /\ bncall.mode = "train") =>
          /\ mean = RMul(RSub(FromInt(1), Alpha), BatchMean(bncall.x))
          /\ RSq(var_root) =
                RAdd(Alpha, RMul(RSub(FromInt(1), Alpha), BatchVar(bncall.x)))

\* C8: an evaluation-mode call normalizes with the stored mean and var only:
\* the output for a sample is the one the stored statistics give, and two
\* evaluation calls in the same BatchNorm state agree on every sample they share,
\* whatever else their batches hold.
C8_EvalUsesRunningOnly ==
    /\ bncall.mode = "eval" =>
          \A i \in DOMAIN bncall.x :
              bncall.out[i] =
                  Affine(bncall.scale, bncall.bias,
                         Normalize(bncall.x[i], bncall.mean0, bncall.root0))
    /\ (/\ bncall.mode = "eval" /\ bnprev.mode = "eval"
        /\ bncall.mean0 = bnprev.mean0 /\ bncall.root0 = bnprev.root0
        /\ bncall.scale = bnprev.scale /\ bncall.bias = bnprev.bias) =>
          \A i \in DOMAIN bncall.x : \A j \in DOMAIN bnprev.x :
              bncall.x[i] = bnprev.x[j] => bncall.out[i] = bnprev.out[j]

\* after training, the sample 0 evaluated in the batch <<0, 4>> and then in the
\* batch <<0, 2>>
C8_Witness ==
    /\ ntrain > 0
    /\ bncall.mode = "eval" /\ bnprev.mode = "eval"
    /\ bncall.x = <<0, 2>> /\ bnprev.x = <<0, 4>>
    /\ bncall.mean0 = bnprev.mean0 /\ bncall.root0 = bnprev.root0
    /\ bncall.scale = bnprev.scale /\ bncall.bias = bnprev.bias

\* C9: an evaluation-mode BatchNorm call leaves mean and var as they were.
C9_EvalLeavesStats ==
    [][(use_running_average /\ bncall'.mode = "eval" /\ bnprev' = bncall)
          => (mean' = mean /\ var_root' = var_root)]_vars

\* two evaluation calls in a row, on statistics two training calls have moved
C9_Witness ==
    /\ ntrain = 2
    /\ mean # FromInt(0)
    /\ var_root # FromInt(1)
    /\ bncall.mode = "eval" /\ bnprev.mode = "eval"
    /\ bncall.x = <<4, 4>>

\* C10: with scale = 1 and bias = 0 the training-mode output is the pure
\* normalization of the input by the batch mean and the batch variance.
C10_UnitAffineIsNormalization ==
    (bncall.mode = "train" /\ bncall.scale = 1 /\ bncall.bias = 0) =>
        \A i \in DOMAIN bncall.x :
            bncall.out[i] =
                Normalize(bncall.x[i], BatchMean(bncall.x), RSqrt(BatchVar(bncall.x)))

\* a training call on <<0, 4>> of a BatchNorm whose scale and bias are the
\* ones it was constructed with
C10_Witness ==
    /\ bncall.mode = "train"
    /\ bncall.scale = 1 /\ bncall.bias = 0
    /\ bncall.x = <<0, 4>>
    /\ bncall.out[1] = [a |-> FromInt(-2), root |-> FromInt(2), b |-> FromInt(0)]

\* C12: a Dropout layer with p = 0 returns its input unchanged in training
\* mode and in evaluation mode.
C12_ZeroRateIsIdentity ==
    (Called /\ call.rate = 0) =>
        \A i \in DOMAIN call.x : call.out[i] = FromInt(call.x[i])

\* a training-mode call of a p = 0 layer whose draws would be dropped by
\* p = 0.5
C12_Witness ==
    /\ Called /\ ~call.det
    /\ call.rate = 0
    /\ call.x = <<-3, 0>>
    /\ call.sk \in DOMAIN uni
    /\ uni[call.sk] = <<7, 7>>

\* C16: a Dropout forward call in evaluation mode changes neither the RNG
\* stream (key and count), nor the mode flag, nor the drop probability.
C16_EvalCallHasNoSideEffect ==
    [][(deterministic[1] /\ call' # call /\ call'.det)
          => (/\ key' = key /\ count' = count /\ uni' = uni
              /\ deterministic' = deterministic /\ rate' = rate)]_vars

\* an evaluation call after two training calls: the count is still 2
C16_Witness ==
    /\ Called /\ call.det
    /\ call.x = <<-3, 0>>
    /\ deterministic[1]
    /\ count[1] = 2
    /\ Len(log[1]) = 2

C20_TrainIgnoresRunningStats ==
    (/\ bncall.mode = "train" /\ bnprev.mode = "train"
     /\ bncall.x = bnprev.x
     /\ bncall.scale = bnprev.scale /\ bncall.bias = bnprev.bias) =>
        bncall.out = bnprev.out

\* the batch <<0, 4>> normalized twice in training mode, the running statistics
\* having moved in between
C20_Witness ==
    /\ bncall.mode = "train" /\ bnprev.mode = "train"
    /\ bncall.x = <<0, 4>> /\ bnprev.x = <<0, 4>>
    /\ bncall.scale = 2 /\ bnprev.scale = 2
    /\ bncall.bias = bnprev.bias
    /\ bncall.mean0 # bnprev.mean0
    /\ bncall.root0 # bnprev.root0

\* C11: constructing a Dropout layer with p = 1.0 or p outside [0,1] ends in
\* the invalid-configuration error; no layer holds such a p in any reachable
\* state and no forward call divides by 1 - p = 0.
C11_InvalidRateRejected ==
    /\ \A l \in Layers : rate[l] >= 0 /\ rate[l] < 10
    /\ outcome.kind # "none" =>
          /\ (outcome.p < 0 \/ outcome.p >= 10) => outcome.kind = "invalid-configuration"
          /\ (outcome.p >= 0 /\ outcome.p < 10) => outcome.kind = "ok"
    /\ Called => 10 - call.rate # 0

\* nnx.Dropout(1.0) refused after the p = 0.5 layer was called in training mode;
\* the name still holds the p = 0.5 layer
C11_Witness ==
    /\ outcome.kind = "invalid-configuration"
    /\ outcome.p = 10
    /\ Called /\ ~call.det /\ call.rate = 5
    /\ rate[1] = 5
    /\ count[1] = 1

\* C14: a BatchNorm forward call whose input does not have the configured
\* feature width fails, and running_mean and running_var after the failed call
\* are what they were before it, in training mode and in evaluation mode.
C14_FailedCallLeavesStats ==
    /\ outcome.kind # "none" =>
          (outcome.kind = "invalid-input" <=> outcome.w # NumFeatures)
    /\ outcome.kind = "invalid-input" =>
          /\ mean = outcome.mean0
          /\ var_root = outcome.root0

\* a training-mode call on an input one feature too wide, after a training call
\* that moved the running statistics
C14_Witness ==
    /\ outcome.kind = "invalid-input"
    /\ outcome.mode = "train"
    /\ outcome.w = NumFeatures + 1
    /\ ntrain = 1
    /\ mean # FromInt(0)
    /\ ~use_running_average

\* C13: a freshly constructed Dropout or BatchNorm layer, and a freshly
\* constructed model holding them, is in training mode until the first mode
\* switch: deterministic = False and use_running_average = False.
C13_FreshIsTraining ==
    switch = "none" =>
        /\ \A l \in Layers : ~deterministic[l]
        /\ ~use_running_average

\* the model called twice and its parameters updated, no mode switch made
C13_Witness ==
    /\ switch = "none"
    /\ ntrain = 2
    /\ Called /\ ~call.det
    /\ bncall.mode = "train" /\ bnprev.mode = "train"
    /\ scale = 2

\* C18: the mode flags change only in a model.train() / model.eval() step:
\* every forward call, in either mode, and every optimizer update leaves
\* deterministic and use_running_average of every sub-layer unchanged.
C18_ModeChangesOnlyOnSwitch ==
    [][(\/ call' # call \/ bncall' # bncall \/ bnprev' # bnprev
        \/ count' # count \/ ntrain' # ntrain \/ uni' # uni
        \/ mean' # mean \/ var_root' # var_root
        \/ scale' # scale \/ bias' # bias)
          => (deterministic' = deterministic
              /\ use_running_average' = use_running_average)]_vars

\* an evaluation-mode forward call made with scale 1, the optimizer update to
\* scale 2 after it, and the model still in evaluation mode
C18_Witness ==
    /\ switch = "eval"
    /\ deterministic[1] /\ use_running_average
    /\ Called /\ call.det
    /\ bncall.mode = "eval" /\ bncall.scale = 1
    /\ scale = 2
    /\ ntrain = 1

C15_EvalUnaffectedByTraining ==
    \A e1 \in evals, e2 \in evals :
        (e1.x = e2.x /\ key[e1.m] = key[e2.m]) => e1.out = e2.out

\* model 1 evaluated after a training call, model 2 evaluated fresh, the
\* output not zero
C15_Witness ==
    \E e1 \in evals, e2 \in evals :
        /\ e1.m = 1 /\ e1.trained = 1
        /\ e2.m = 2 /\ e2.trained = 0
        /\ e1.x = e2.x
        /\ log[2] = <<>>
        /\ e1.out # FromInt(0)

\* C21: with epsilon > 0 and momentum in [0,1] the running variance is never
\* negative (its square root, which the layer holds, is a non-negative real),
\* so the evaluation-mode normalization divides by a positive number.
C21_RunningVarNonNegative ==
    /\ var_root[1] >= 0 /\ var_root[2] > 0
    /\ bncall.mode = "eval" => (bncall.root0[1] >= 0 /\ bncall.root0[2] > 0)

\* an evaluation call after two training calls on a batch of variance 0, which
\* pulled the running variance below 1
C21_Witness ==
    /\ bncall.mode = "eval"
    /\ ntrain = 2
    /\ bncall.root0 = var_root
    /\ var_root[1] < var_root[2]
    /\ bnprev.mode = "train" /\ bnprev.x = <<4, 4>>

\* C22: running_mean and running_var change only in a training-mode forward
\* step of the BatchNorm layer (evaluation calls, mode switches, Dropout calls
\* and optimizer updates leave them), and a BatchNorm forward call in either
\* mode leaves scale and bias unchanged.
C22_StatsChangeOnlyInTrainingCall ==
    [][/\ (mean' # mean \/ var_root' # var_root) =>
             (/\ ~use_running_average
              /\ ntrain' = ntrain + 1
              /\ bncall'.mode = "train"
              /\ UNCHANGED <<call, count, scale, bias, use_running_average>>)
       /\ (bncall' # bncall \/ bnprev' # bnprev \/ ntrain' # ntrain) =>
             (scale' = scale /\ bias' = bias)]_vars

\* the statistics moved by one training call, then an evaluation call, an
\* optimizer update and a Dropout call
C22_Witness ==
    /\ ntrain = 1
    /\ mean = <<1, 50>>
    /\ bncall.mode = "eval" /\ bncall.scale = 1
    /\ scale = 2
    /\ Called /\ ~call.det
    /\ use_running_average

\* C23: with broadcast_dims = (1,) a training-mode call on a two-dimensional
\* input gives every row one mask value: each output row is entirely zero or
\* entirely the input row scaled by 1/(1-p), never part dropped and part kept.
C23_RowsDroppedWhole ==
    (Called /\ ~call.det) =>
        \A r \in DOMAIN call.x :
            \/ \A c \in DOMAIN call.x[r] : call.out[r][c] = FromInt(0)
            \/ \A c \in DOMAIN call.x[r] :
                  call.out[r][c] = Rat(10 * call.x[r][c], 10 - call.rate)

\* p = 0.5: the first row dropped, the second kept and doubled
C23_Witness ==
    /\ Called /\ ~call.det
    /\ call.rate = 5
    /\ call.x = << <<1, 2>>, <<-3, 4>> >>
    /\ call.out = << <<FromInt(0), FromInt(0)>>, <<FromInt(-6), FromInt(8)>> >>

\* the keys object o has handed out for rngs.<name>(), in order
KeysFor(o, name) == SelectSeq(handed[o], LAMBDA h : h.name = name)

\* C24: the named streams of one Rngs object do not interfere: the k-th call
\* of rngs.<name>() gets count k - 1 of its own counter whatever was drawn from
\* the other names, and a name other than params gets the same key sequence
\* from nnx.Rngs(0, params=1) as from nnx.Rngs(0).
C24_StreamsDoNotInterfere ==
    /\ \A o \in RngsObjects, name \in StreamNames :
          \A k \in 1..Len(KeysFor(o, name)) :
              KeysFor(o, name)[k].count = NewCount + (k - 1)
    /\ \A name \in StreamNames \ {"params"} :
          \A k \in 1..Len(KeysFor(1, name)) :
              k <= Len(KeysFor(2, name)) =>
                  KeysFor(1, name)[k].sk = KeysFor(2, name)[k].sk

\* C25: every call on a stream of an Rngs object returns a key the stream has
\* not returned before: the stream's count is larger at each call and no
\* (seed, count) pair is handed out twice.
C25_KeysNeverRepeat ==
    \A o \in RngsObjects :
        \A i \in 1..Len(handed[o]), j \in 1..Len(handed[o]) :
            (i < j /\ handed[o][i].stream = handed[o][j].stream) =>
                /\ handed[o][i].count < handed[o][j].count
                /\ handed[o][i].sk # handed[o][j].sk

\* nnx.Rngs(0, params=1) called three times on params and nnx.Rngs(0) on
\* params, dropout, params
C25_Witness ==
    /\ Len(handed[1]) = 3 /\ Len(handed[2]) = 3
    /\ [i \in 1..3 |-> handed[1][i].name] = <<"params", "dropout", "params">>
    /\ \A i \in 1..3 : handed[2][i].name = "params"
    /\ streams[2]["params"].count = 3
    /\ streams[1]["default"].count = 3

\* C26: the running statistics of distinct BatchNorm instances are
\* independent: a training-mode call on one instance leaves running_mean and
\* running_var of the other unchanged, in every interleaving.
C26_InstancesIndependent ==
    [][/\ (other'.mean # other.mean \/ other'.var_root # other.var_root) =>
             (mean' = mean /\ var_root' = var_root)
       /\ (mean' # mean \/ var_root' # var_root) =>
             (other'.mean = other.mean /\ other'.var_root = other.var_root)]_vars

\* both instances called twice in training mode, on different batches
C26_Witness ==
    /\ ntrain = 2 /\ other.ntrain = 2
    /\ mean # other.mean
    /\ var_root # other.var_root
    /\ bncall.x = <<4, 4>>

RecordsIn(a) == {a[i] : i \in DOMAIN a}

\* C28: features and labels are permuted with the same key, so the same
\* permutation is applied to both: at every position i, X_shuffled[i] and
\* y_shuffled[i] are the feature row and the label of one original record.
C28_SamePermutation ==
    prep.pc \in {"shuffled", "split"} =>
        \A i \in 1..prep.n :
            \E j \in 1..prep.n : prep.Xs[i] = prep.X[j] /\ prep.ys[i] = prep.y[j]

\* four records with labels 0, 1, 1, 0 shuffled to the order 3, 1, 4, 2
C28_Witness ==
    /\ prep.pc = "shuffled"
    /\ prep.n = 4
    /\ prep.y = <<0, 1, 1, 0>>
    /\ prep.Xs = <<3, 1, 4, 2>>
    /\ prep.ys = <<1, 0, 0, 1>>

\* C29: the train/test split is a partition of the shuffled records: with
\* N_div = int(0.8 * N) the training set is the first N_div shuffled records
\* and the test set the remaining N - N_div; every record is in exactly one of
\* the two sets.
C29_SplitIsPartition ==
    prep.pc = "split" =>
        LET nd == (8 * prep.n) \div 10
        IN  /\ Len(prep.X_train) = nd /\ Len(prep.y_train) = nd
            /\ Len(prep.X_test) = prep.n - nd /\ Len(prep.y_test) = prep.n - nd
            /\ prep.X_train \o prep.X_test = prep.Xs
            /\ prep.y_train \o prep.y_test = prep.ys
            /\ RecordsIn(prep.X_train) \cup RecordsIn(prep.X_test) = 1..prep.n
            /\ RecordsIn(prep.X_train) \cap RecordsIn(prep.X_test) = {}

\* four records: three in the training set, one in the test set
C29_Witness ==
    /\ prep.pc = "split"
    /\ prep.n = 4
    /\ prep.X_train = <<3, 1, 4>>
    /\ prep.X_test = <<2>>
    /\ prep.y_test = <<prep.y[2]>>

\* (w, b) after k iterations of simultaneous gradient descent from (w0, b0)
RECURSIVE Descent(_, _, _)
Descent(w0, b0, k) ==
    IF k = 0 THEN <<w0, b0>>
    ELSE LET p == Descent(w0, b0, k - 1)
         IN  <<Step(p[1], GradW(p[1], p[2])), Step(p[2], GradB(p[1], p[2]))>>

\* C30: every iteration evaluates the loss and both gradients at the same
\* pre-update (w, b), records that loss and only then updates w and b; b is
\* updated with the gradient taken at the old w; the loop stops after exactly
\* N_train iterations with N_train recorded losses.
C30_SimultaneousUpdate ==
    LET at == Descent(gd.w_init, gd.b_init, gd.i)
    IN  /\ gd.pc \in {"for", "grad", "done"} =>
              /\ <<gd.w, gd.b>> = at
              /\ Len(gd.losses) = gd.i
              /\ \A k \in 1..gd.i :
                    LET p == Descent(gd.w_init, gd.b_init, k - 1)
                    IN  gd.losses[k] = Loss(p[1], p[2])
        /\ gd.pc \in {"append", "upd_w"} =>
              /\ <<gd.w, gd.b>> = at
              /\ gd.loss = Loss(at[1], at[2])
              /\ gd.grads = <<GradW(at[1], at[2]), GradB(at[1], at[2])>>
        /\ gd.pc = "upd_w" =>
              (Len(gd.losses) = gd.i + 1 /\ gd.losses[gd.i + 1] = Loss(gd.w, gd.b))
        /\ gd.pc = "upd_b" =>
              /\ gd.w = Step(at[1], GradW(at[1], at[2]))
              /\ gd.b = at[2]
              /\ gd.grads[2] = GradB(at[1], at[2])
        /\ gd.pc = "done" => (gd.i = N_train /\ Len(gd.losses) = N_train)

\* the loop over: N_train losses recorded, w and b moved N_train times
C30_Witness ==
    /\ gd.pc = "done"
    /\ gd.i = N_train
    /\ Len(gd.losses) = N_train
    /\ gd.w_init = Const(-2)
    /\ gd.w # gd.w_init /\ gd.b # gd.b_init
    /\ gd.losses[1] = Loss(Const(-2), Const(0))

====
